---- MODULE Spec2Model ----
(***************************************************************************)
(* Model of the WhoDB desktop launcher, desktop/src-tauri/src/main.rs:     *)
(* the backend supervisor (port allocation, binary search, spawn, the     *)
(* immediate-exit check, the published backend info, cleanup on window    *)
(* events) together with the operating system and the window host it      *)
(* talks to.                                                               *)
(*                                                                         *)
(* Option<T> values are sequences: None is <<>>, Some(x) is <<x>>.         *)
(* Paths are sequences of path components.                                 *)
(***************************************************************************)
EXTENDS Integers, Sequences, FiniteSets, TLC

VARIABLES
    build,          \* compile-time configuration: debug_assertions, CARGO_MANIFEST_DIR
    exeEnv,         \* what std::env::current_exe() gives: <<"ok", dir>>, <<"err">>, <<"noparent">>
    fs,             \* the paths that exist on the filesystem (normalised)
    pc,             \* position of the main thread
    port,           \* start_backend local `port` (Option)
    possible_paths, \* start_backend local `possible_paths`
    core_binary,    \* start_backend local `core_binary` (Option<path>)
    child,          \* start_backend local `child`, until it is moved into BACKEND_CHILD (Option<Child>)
    pid,            \* start_backend local `pid` (Option)
    result,         \* the value start_backend returned (Option<Result>)
    BACKEND_INFO,   \* static BACKEND_INFO (Option<BackendInfo>)
    BACKEND_CHILD,  \* static BACKEND_CHILD (Option<Child>)
    proc,           \* the operating system's record of the child process (Option)
    listener,       \* the port held by the allocator's TcpListener (Option)
    stderr,         \* what the program wrote with eprintln!
    lastPort,       \* what the last get_backend_port call returned (Option<Option<u16>>)
    hist,           \* history: counters and observations of what has happened
    sync,           \* the two mutexes and the position of every thread in its lock protocol
    probe           \* the readiness probe waitForBackendReady and the backend it polls

\* the supervisor and its environment
mainVars == <<build, exeEnv, fs, pc, port, possible_paths, core_binary, child, pid, result,
              BACKEND_INFO, BACKEND_CHILD, proc, listener, stderr, lastPort, hist>>

vars == <<build, exeEnv, fs, pc, port, possible_paths, core_binary, child, pid, result,
          BACKEND_INFO, BACKEND_CHILD, proc, listener, stderr, lastPort, hist, sync, probe>>

-----------------------------------------------------------------------------
(* Bounds of the model *)

\* most files that exist among the places searched
MaxFiles == 2
\* most window events delivered in one run
MaxEvents == 2

-----------------------------------------------------------------------------
(* Values *)

None == <<>>
Some(x) == <<x>>
IsSome(o) == Len(o) = 1
Unwrap(o) == o[1]

\* ports the OS may hand out for a bind to 127.0.0.1:0
Ports == {8080, 49152}
\* process ids the OS may give the child
Pids == {4001}
\* exit statuses of a child that ends by itself
ExitStatuses == {"exit_0", "exit_1"}
\* the status of a child ended by the kill signal
KilledStatus == "signal_9"

\* CARGO_MANIFEST_DIR of a cargo build
ManifestDir == <<"m">>
\* directories the running executable may live in
ExeDirs == { <<"m">>, <<"opt", "app">> }

\* the window events the host delivers to on_window_event
WindowEvents == {"CloseRequested", "Destroyed", "Focused"}

\* u16::to_string: the decimal digits, most significant first
RECURSIVE to_string(_)
to_string(n) == IF n < 10 THEN <<n>> ELSE Append(to_string(n \div 10), n % 10)

\* an error value (Box<dyn Error>): its message and what is formatted into it
Error(msg, detail) == [msg |-> msg, detail |-> detail]
Ok(v) == [ok |-> TRUE, val |-> Some(v), err |-> None]
Err(e) == [ok |-> FALSE, val |-> None, err |-> Some(e)]

-----------------------------------------------------------------------------
(* The binary search of start_backend *)

\* Path::join
join(base, rel) == base \o rel

exe_candidates ==
    << <<"whodb-core">>, <<"whodb-core.exe">>,
       <<"bin", "whodb-core">>, <<"bin", "whodb-core.exe">> >>

\* the debug-only candidates under CARGO_MANIFEST_DIR
DevPaths(b) ==
    IF b.debug /\ b.manifest
    THEN << join(join(ManifestDir, <<"bin">>), <<"whodb-core.exe">>),
            join(join(ManifestDir, <<"bin">>), <<"whodb-core">>) >>
    ELSE <<>>

\* the three places pushed for one name
PathsFor(exe_dir, name) ==
    << join(exe_dir, name),
       join(join(exe_dir, <<"resources">>), name),
       join(join(join(exe_dir, <<"..">>), <<"resources">>), name) >>

RECURSIVE ExePaths(_, _)
ExePaths(exe_dir, i) ==
    IF i > Len(exe_candidates) THEN <<>>
    ELSE PathsFor(exe_dir, exe_candidates[i]) \o ExePaths(exe_dir, i + 1)

PossiblePaths(b, exe_dir) == DevPaths(b) \o ExePaths(exe_dir, 1)

\* the file a path names: "d/.." steps back out of d
RECURSIVE Resolve(_, _)
Resolve(done, rest) ==
    IF rest = <<>> THEN done
    ELSE IF Head(rest) = ".." /\ done # <<>>
         THEN Resolve(SubSeq(done, 1, Len(done) - 1), Tail(rest))
         ELSE Resolve(Append(done, Head(rest)), Tail(rest))

\* Path::exists
exists(files, path) == Resolve(<<>>, path) \in files

\* the loop of lines 83-89: the first path that exists, from index i on
RECURSIVE FirstExisting(_, _, _)
FirstExisting(files, paths, i) ==
    IF i > Len(paths) THEN None
    ELSE IF exists(files, paths[i]) THEN Some(paths[i])
    ELSE FirstExisting(files, paths, i + 1)

\* the search without its `break`: the last path that exists wins
RECURSIVE LastExisting(_, _, _)
LastExisting(files, paths, i) ==
    IF i < 1 THEN None
    ELSE IF exists(files, paths[i]) THEN Some(paths[i])
    ELSE LastExisting(files, paths, i - 1)

SearchCoreBinary_no_break(files, paths) == LastExisting(files, paths, Len(paths))

SearchCoreBinary(files, paths) == FirstExisting(files, paths, 1)

\* the eprintln! lines of the not-found closure, lines 92-95
RECURSIVE SearchedLines(_, _)
SearchedLines(paths, i) ==
    IF i > Len(paths) THEN <<>>
    ELSE << <<"  - ", paths[i]>> >> \o SearchedLines(paths, i + 1)

\* the not-found closure without its loop over possible_paths
NotFoundLog_header_only(paths) ==
    << <<"[ERROR] Core binary not found. Searched paths:">> >>

NotFoundLog(paths) ==
    << <<"[ERROR] Core binary not found. Searched paths:">> >> \o SearchedLines(paths, 1)

NotFoundError == Error("Core binary not found in any expected location", <<>>)

-----------------------------------------------------------------------------
(* Initial states: the build, the installation and an application not yet started *)

Builds ==
    { [debug |-> FALSE, manifest |-> TRUE],
      [debug |-> TRUE, manifest |-> TRUE],
      [debug |-> TRUE, manifest |-> FALSE] }

ExeEnvs == { <<"ok", d>> : d \in ExeDirs } \cup { <<"err">>, <<"noparent">> }

\* the files that could be found by the search of this build and installation
Searchable(b, e) ==
    IF e[1] = "ok"
    THEN LET ps == PossiblePaths(b, e[2])
         IN { Resolve(<<>>, ps[i]) : i \in 1..Len(ps) }
    ELSE {}

NoHist ==
    [ allocCount |-> 0, locateCount |-> 0, spawnCount |-> 0,
      killCalls |-> 0, stopCalls |-> 0, events |-> 0,
      observed |-> FALSE, try_wait |-> None, stopSteps |-> None,
      bound |-> None, others |-> {} ]

\* the two statics' mutexes
Mutexes == {"BACKEND_INFO", "BACKEND_CHILD"}
\* the threads of the host's command pool that run get_backend_port
UiThreads == {"ui1", "ui2"}
\* the main thread runs main, start_backend and, in the host, on_window_event
Threads == {"main"} \cup UiThreads

\* no mutex held, main about to spawn, no command running
NoSync ==
    [ mutex |-> [m \in Mutexes |-> "free"],
      at |-> [t \in Threads |-> IF t = "main" THEN "spawn" ELSE "idle"],
      child |-> FALSE,
      used |-> {},
      events |-> 0 ]

\* the probe not started
NoProbe ==
    [ at |-> "idle", attempts |-> 0, requests |-> 0, readyAt |-> 0,
      lastError |-> None, outcome |-> None ]

Init ==
    /\ sync = NoSync
    /\ probe = NoProbe
    /\ build \in Builds
    /\ exeEnv \in ExeEnvs
    /\ fs \in { S \in SUBSET Searchable(build, exeEnv) : Cardinality(S) <= MaxFiles }
    /\ pc = "start"
    /\ port = None
    /\ possible_paths = <<>>
    /\ core_binary = None
    /\ child = None
    /\ pid = None
    /\ result = None
    /\ BACKEND_INFO = None
    /\ BACKEND_CHILD = None
    /\ proc = None
    /\ listener = None
    /\ stderr = <<>>
    /\ lastPort = None
    /\ hist = NoHist

-----------------------------------------------------------------------------
(* The operating system's side of the child process *)

\* a process just created by Command::spawn
NewProcess(p, program, env) ==
    [ pid |-> p, program |-> program, env |-> env,
      state |-> "running", status |-> None, signals |-> 0 ]

\* the handle std::process::Child: the pid and the exit status once it was collected
NewChild(p) == [ pid |-> p, status |-> None ]

\* the process after a kill signal was delivered to it
Signalled(pr) ==
    IF pr.state = "running"
    THEN [pr EXCEPT !.state = "zombie", !.status = Some(KilledStatus), !.signals = @ + 1]
    ELSE [pr EXCEPT !.signals = @ + 1]

\* the child ends by itself, at any time while the application runs
ChildExits(s) ==
    /\ pc # "exited"
    /\ IsSome(proc)
    /\ Unwrap(proc).state = "running"
    /\ proc' = Some([Unwrap(proc) EXCEPT !.state = "zombie", !.status = Some(s)])
    /\ UNCHANGED <<probe, sync, build, exeEnv, fs, pc, port, possible_paths, core_binary, child, pid,
                   result, BACKEND_INFO, BACKEND_CHILD, listener, stderr, lastPort, hist>>

-----------------------------------------------------------------------------
(* start_backend, step by step *)

\* start_backend returns r to main
Return(r) ==
    /\ result' = Some(r)
    /\ pc' = "match"

\* find_available_port returning with its listener still open (leaked, not dropped)
FindAvailablePort_keeps_listener ==
    /\ pc = "start"
    /\ \/ /\ Return(Err(Error("io", <<"bind">>)))
          /\ hist' = [hist EXCEPT !.allocCount = @ + 1]
          /\ listener' = None
          /\ UNCHANGED port
       \/ \E others \in SUBSET Ports : \E p \in Ports \ others :
            /\ port' = Some(p)
            /\ listener' = Some(p)
            /\ hist' = [hist EXCEPT !.allocCount = @ + 1, !.bound = Some(p),
                                    !.others = others]
            /\ pc' = "locate"
            /\ UNCHANGED result
    /\ UNCHANGED <<probe, sync, build, exeEnv, fs, possible_paths, core_binary, child, pid,
                   BACKEND_INFO, BACKEND_CHILD, proc, stderr, lastPort>>

\* find_available_port, lines 42-47 and 53: bind port 0 while other processes
\* listen on `others`, read the port the OS chose, drop the listener
FindAvailablePort ==
    /\ pc = "start"
    /\ \/ /\ Return(Err(Error("io", <<"bind">>)))
          /\ hist' = [hist EXCEPT !.allocCount = @ + 1]
          /\ UNCHANGED port
       \/ \E others \in SUBSET Ports : \E p \in Ports \ others :
            /\ port' = Some(p)
            /\ hist' = [hist EXCEPT !.allocCount = @ + 1, !.bound = Some(p),
                                    !.others = others]
            /\ pc' = "locate"
            /\ UNCHANGED result
    /\ listener' = None
    /\ UNCHANGED <<probe, sync, build, exeEnv, fs, possible_paths, core_binary, child, pid,
                   BACKEND_INFO, BACKEND_CHILD, proc, stderr, lastPort>>

\* lines 57-97: current_exe, the candidate list and the search
Locate ==
    /\ pc = "locate"
    /\ hist' = [hist EXCEPT !.locateCount = @ + 1]
    /\ IF exeEnv[1] = "err"
       THEN /\ Return(Err(Error("io", <<"current_exe">>)))
            /\ UNCHANGED <<possible_paths, core_binary, stderr>>
       ELSE IF exeEnv[1] = "noparent"
       THEN /\ Return(Err(Error("Could not get executable directory", <<>>)))
            /\ UNCHANGED <<possible_paths, core_binary, stderr>>
       ELSE LET paths == PossiblePaths(build, exeEnv[2])
                found == SearchCoreBinary(fs, paths)
            IN /\ possible_paths' = paths
               /\ core_binary' = found
               /\ IF IsSome(found)
                  THEN /\ pc' = "spawn"
                       /\ UNCHANGED <<result, stderr>>
                  ELSE /\ stderr' = stderr \o NotFoundLog(paths)
                       /\ Return(Err(NotFoundError))
    /\ UNCHANGED <<probe, sync, build, exeEnv, fs, port, child, pid, BACKEND_INFO, BACKEND_CHILD,
                   proc, listener, lastPort>>

\* lines 106-119: Command::new(..).env("PORT", ..).spawn()? and child.id()
Spawn ==
    /\ pc = "spawn"
    /\ hist' = [hist EXCEPT !.spawnCount = @ + 1]
    /\ \/ /\ Return(Err(Error("io", <<"spawn">>)))
          /\ UNCHANGED <<child, pid, proc>>
       \/ \E p \in Pids :
            /\ proc' = Some(NewProcess(p, Unwrap(core_binary),
                                       [PORT |-> to_string(Unwrap(port))]))
            /\ child' = Some(NewChild(p))
            /\ pid' = Some(p)
            /\ pc' = "store"
            /\ UNCHANGED result
    /\ UNCHANGED <<probe, sync, build, exeEnv, fs, port, possible_paths, core_binary,
                   BACKEND_INFO, BACKEND_CHILD, listener, stderr, lastPort>>

\* lines 122-124: the child is moved into BACKEND_CHILD
StoreChild ==
    /\ pc = "store"
    /\ BACKEND_CHILD' = child
    /\ child' = None
    /\ pc' = "sleep"
    /\ UNCHANGED <<probe, sync, build, exeEnv, fs, port, possible_paths, core_binary, pid, result,
                   BACKEND_INFO, proc, listener, stderr, lastPort, hist>>

\* line 127: thread::sleep of the grace period
GracePeriod ==
    /\ pc = "sleep"
    /\ pc' = "check"
    /\ UNCHANGED <<probe, sync, build, exeEnv, fs, port, possible_paths, core_binary, child, pid, result,
                   BACKEND_INFO, BACKEND_CHILD, proc, listener, stderr, lastPort, hist>>

ImmediateExitError(status) ==
    Error("Backend process exited immediately with status: ", <<status>>)

\* lines 155-158
\* a BackendInfo that reports the default port in place of the allocated one
BackendInfo_default_port(p, id) == [port |-> 8080, pid |-> Some(id)]

BackendInfo(p, id) == [port |-> p, pid |-> Some(id)]

\* start_backend without the match on try_wait: the launch is reported as a success
CheckRunning_no_exit_check ==
    /\ pc = "check"
    /\ hist' = [hist EXCEPT !.try_wait =
                   Some(IF Unwrap(proc).state = "zombie"
                        THEN <<"exited", Unwrap(Unwrap(proc).status)>>
                        ELSE <<"running">>)]
    /\ Return(Ok(BackendInfo(Unwrap(port), Unwrap(pid))))
    /\ UNCHANGED <<probe, sync, build, exeEnv, fs, port, possible_paths, core_binary, child, pid,
                   BACKEND_INFO, BACKEND_CHILD, proc, listener, stderr, lastPort>>

\* lines 130-158: child.try_wait() on the stored child and the value returned
CheckRunning ==
    /\ pc = "check"
    /\ IF IsSome(BACKEND_CHILD)
       THEN LET pr == Unwrap(proc)
            IN \/ /\ pr.state = "zombie"
                  /\ proc' = Some([pr EXCEPT !.state = "reaped"])
                  /\ BACKEND_CHILD' = Some([Unwrap(BACKEND_CHILD) EXCEPT !.status = pr.status])
                  /\ stderr' = stderr \o << <<"[ERROR] Backend process exited immediately!">>,
                                            <<"[ERROR] Exit status: ", Unwrap(pr.status)>> >>
                  /\ hist' = [hist EXCEPT !.try_wait = Some(<<"exited", Unwrap(pr.status)>>),
                                          !.observed = TRUE]
                  /\ Return(Err(ImmediateExitError(Unwrap(pr.status))))
               \/ /\ pr.state = "running"
                  /\ hist' = [hist EXCEPT !.try_wait = Some(<<"running">>)]
                  /\ Return(Ok(BackendInfo(Unwrap(port), Unwrap(pid))))
                  /\ UNCHANGED <<proc, BACKEND_CHILD, stderr>>
               \/ /\ hist' = [hist EXCEPT !.try_wait = Some(<<"error">>)]
                  /\ Return(Err(Error("Error checking backend process: ", <<"io">>)))
                  /\ UNCHANGED <<proc, BACKEND_CHILD, stderr>>
       ELSE /\ Return(Ok(BackendInfo(Unwrap(port), Unwrap(pid))))
            /\ UNCHANGED <<proc, BACKEND_CHILD, stderr, hist>>
    /\ UNCHANGED <<probe, sync, build, exeEnv, fs, port, possible_paths, core_binary, child, pid,
                   BACKEND_INFO, listener, lastPort>>

-----------------------------------------------------------------------------
(* main *)

\* main with a launch failure made fatal: the process ends instead of running the host
MainMatch_fatal ==
    /\ pc = "match"
    /\ LET r == Unwrap(result)
       IN IF r.ok
          THEN /\ BACKEND_INFO' = r.val
               /\ pc' = "host"
               /\ UNCHANGED stderr
          ELSE /\ stderr' = Append(stderr, <<"Failed to start backend: ", Unwrap(r.err)>>)
               /\ pc' = "exited"
               /\ UNCHANGED BACKEND_INFO
    /\ UNCHANGED <<probe, sync, build, exeEnv, fs, port, possible_paths, core_binary, child, pid, result,
                   BACKEND_CHILD, proc, listener, lastPort, hist>>

\* main with a retry: after a failure start_backend is called again
MainMatch_retry ==
    /\ pc = "match"
    /\ LET r == Unwrap(result)
       IN IF r.ok
          THEN /\ BACKEND_INFO' = r.val
               /\ pc' = "host"
               /\ UNCHANGED <<stderr, result, BACKEND_CHILD>>
          ELSE /\ stderr' = Append(stderr, <<"Failed to start backend: ", Unwrap(r.err)>>)
               /\ pc' = "start"
               /\ result' = None
               /\ BACKEND_CHILD' = None
               /\ UNCHANGED BACKEND_INFO
    /\ UNCHANGED <<probe, sync, build, exeEnv, fs, port, possible_paths, core_binary, child, pid,
                   proc, listener, lastPort, hist>>

\* main that publishes the info of whatever was spawned, whatever start_backend returned
MainMatch_publishes_always ==
    /\ pc = "match"
    /\ LET r == Unwrap(result)
       IN /\ BACKEND_INFO' = IF IsSome(pid)
                              THEN Some(BackendInfo(Unwrap(port), Unwrap(pid)))
                              ELSE None
          /\ IF r.ok
             THEN UNCHANGED stderr
             ELSE stderr' = Append(stderr, <<"Failed to start backend: ", Unwrap(r.err)>>)
    /\ pc' = "host"
    /\ UNCHANGED <<probe, sync, build, exeEnv, fs, port, possible_paths, core_binary, child, pid, result,
                   BACKEND_CHILD, proc, listener, lastPort, hist>>

\* lines 180-193: the match on start_backend's result
MainMatch ==
    /\ pc = "match"
    /\ LET r == Unwrap(result)
       IN IF r.ok
          THEN /\ BACKEND_INFO' = r.val
               /\ UNCHANGED stderr
          ELSE /\ stderr' = Append(stderr, <<"Failed to start backend: ", Unwrap(r.err)>>)
               /\ UNCHANGED BACKEND_INFO
    /\ pc' = "host"
    /\ UNCHANGED <<probe, sync, build, exeEnv, fs, port, possible_paths, core_binary, child, pid, result,
                   BACKEND_CHILD, proc, listener, lastPort, hist>>

\* lines 195-225: the window host is built and run
HostRun ==
    /\ pc = "host"
    /\ pc' = "running"
    /\ UNCHANGED <<probe, sync, build, exeEnv, fs, port, possible_paths, core_binary, child, pid, result,
                   BACKEND_INFO, BACKEND_CHILD, proc, listener, stderr, lastPort, hist>>

\* cleanup_backend with as_mut() in place of take(): the handle stays in BACKEND_CHILD
cleanup_backend_keeps_handle(h) ==
    IF IsSome(BACKEND_CHILD)
    THEN /\ proc' = Some(Signalled(Unwrap(proc)))
         /\ hist' = [h EXCEPT !.stopCalls = @ + 1, !.killCalls = @ + 1, !.observed = TRUE,
                              !.stopSteps = Some(<<"kill">>)]
         /\ UNCHANGED <<BACKEND_CHILD, stderr>>
    ELSE /\ hist' = [h EXCEPT !.stopCalls = @ + 1, !.stopSteps = Some(<<>>)]
         /\ UNCHANGED <<BACKEND_CHILD, proc, stderr>>

\* cleanup_backend that puts the child back when the kill failed, to try again later
cleanup_backend_retries(h) ==
    IF IsSome(BACKEND_CHILD)
    THEN LET c == Unwrap(BACKEND_CHILD)
             taken == [h EXCEPT !.stopCalls = @ + 1, !.killCalls = @ + 1,
                                !.stopSteps = Some(<<"take", "kill">>)]
         IN IF IsSome(c.status)
            THEN /\ BACKEND_CHILD' = None
                 /\ hist' = [taken EXCEPT !.observed = TRUE]
                 /\ UNCHANGED <<proc, stderr>>
            ELSE \/ /\ BACKEND_CHILD' = None
                    /\ proc' = Some(Signalled(Unwrap(proc)))
                    /\ hist' = [taken EXCEPT !.observed = TRUE]
                    /\ UNCHANGED stderr
                 \/ /\ stderr' = Append(stderr,
                                        <<"Failed to terminate backend process: ", "io">>)
                    /\ hist' = taken
                    /\ UNCHANGED <<BACKEND_CHILD, proc>>
    ELSE /\ hist' = [h EXCEPT !.stopCalls = @ + 1, !.stopSteps = Some(<<>>)]
         /\ UNCHANGED <<BACKEND_CHILD, proc, stderr>>

\* lines 161-171: cleanup_backend, called with the history so far
cleanup_backend(h) ==
    IF IsSome(BACKEND_CHILD)
    THEN LET c == Unwrap(BACKEND_CHILD)
             taken == [h EXCEPT !.stopCalls = @ + 1, !.killCalls = @ + 1,
                                !.observed = TRUE]
         IN /\ BACKEND_CHILD' = None
            /\ IF IsSome(c.status)
               THEN \* the child was already collected: kill sends nothing
                    /\ hist' = [taken EXCEPT !.stopSteps = Some(<<"take", "kill">>)]
                    /\ UNCHANGED <<proc, stderr>>
               ELSE \/ /\ proc' = Some(Signalled(Unwrap(proc)))
                       /\ hist' = [taken EXCEPT !.stopSteps = Some(<<"take", "kill">>)]
                       /\ UNCHANGED stderr
                    \/ /\ stderr' = Append(stderr,
                                           <<"Failed to terminate backend process: ", "io">>)
                       /\ hist' = [taken EXCEPT !.stopSteps = Some(<<"take", "kill">>)]
                       /\ UNCHANGED proc
    ELSE /\ hist' = [h EXCEPT !.stopCalls = @ + 1, !.stopSteps = Some(<<>>)]
         /\ UNCHANGED <<BACKEND_CHILD, proc, stderr>>

\* window events delivered while main is still in start_backend
WindowEvent_any_time(e) ==
    /\ pc # "exited"
    /\ hist.events < MaxEvents
    /\ LET h == [hist EXCEPT !.events = @ + 1]
       IN IF e = "CloseRequested"
          THEN cleanup_backend(h)
          ELSE /\ hist' = h
               /\ UNCHANGED <<BACKEND_CHILD, proc, stderr>>
    /\ pc' = IF e = "Destroyed" THEN "exited" ELSE pc
    /\ UNCHANGED <<probe, sync, build, exeEnv, fs, port, possible_paths, core_binary, child, pid, result,
                   BACKEND_INFO, listener, lastPort>>

\* lines 198-202: on_window_event, and the host ending the run with its window
WindowEvent(e) ==
    /\ pc = "running"
    /\ hist.events < MaxEvents
    /\ LET h == [hist EXCEPT !.events = @ + 1]
       IN IF e = "CloseRequested"
          THEN cleanup_backend(h)
          ELSE /\ hist' = h
               /\ UNCHANGED <<BACKEND_CHILD, proc, stderr>>
    /\ pc' = IF e = "Destroyed" THEN "exited" ELSE pc
    /\ UNCHANGED <<probe, sync, build, exeEnv, fs, port, possible_paths, core_binary, child, pid, result,
                   BACKEND_INFO, listener, lastPort>>

\* lines 29-40: the value get_backend_port returns
get_backend_port ==
    IF IsSome(BACKEND_INFO) THEN Some(Unwrap(BACKEND_INFO).port) ELSE None

\* the UI invokes the command get_backend_port
GetBackendPort ==
    /\ pc = "running"
    /\ lastPort' = Some(get_backend_port)
    /\ UNCHANGED <<probe, sync, build, exeEnv, fs, pc, port, possible_paths, core_binary, child, pid,
                   result, BACKEND_INFO, BACKEND_CHILD, proc, listener, stderr, hist>>

Next ==
    \/ FindAvailablePort
    \/ Locate
    \/ Spawn
    \/ StoreChild
    \/ GracePeriod
    \/ CheckRunning
    \/ MainMatch
    \/ HostRun
    \/ \E e \in WindowEvents : WindowEvent(e)
    \/ GetBackendPort
    \/ \E s \in ExitStatuses : ChildExits(s)

Spec == Init /\ [][Next]_vars

-----------------------------------------------------------------------------
(* The lock protocol: where each thread takes and drops the two mutexes.     *)
(* A thread at a position is about to run the code the position names.       *)

\* Mutex::lock: thread t gets mutex m
Acquire(s, t, m) == [s EXCEPT !.mutex[m] = t, !.used = @ \cup {m}]
\* the guard goes out of scope
Release(s, m) == [s EXCEPT !.mutex[m] = "free"]
Goto(s, t, position) == [s EXCEPT !.at[t] = position]
IsFree(m) == sync.mutex[m] = "free"
Held(t) == { m \in Mutexes : sync.mutex[m] = t }

\* lines 106-119: the spawn (and every step before it) runs with no lock; an
\* error before the child exists returns to main, which goes on to run the host
L_Spawn ==
    /\ sync.at["main"] = "spawn"
    /\ \/ sync' = Goto(sync, "main", "lock_store")
       \/ sync' = Goto(sync, "main", "run")
    /\ UNCHANGED <<mainVars, probe>>

\* line 122: BACKEND_CHILD.lock()
L_LockStore ==
    /\ sync.at["main"] = "lock_store"
    /\ IsFree("BACKEND_CHILD")
    /\ sync' = Goto(Acquire(sync, "main", "BACKEND_CHILD"), "main", "store")
    /\ UNCHANGED <<mainVars, probe>>

\* the store with the sleep moved inside the block of the guard
L_Store_keeps_guard ==
    /\ sync.at["main"] = "store"
    /\ sync' = Goto([sync EXCEPT !.child = TRUE], "main", "sleep")
    /\ UNCHANGED <<mainVars, probe>>

\* lines 123-124: the child is stored and the guard dropped
L_Store ==
    /\ sync.at["main"] = "store"
    /\ sync' = Goto(Release([sync EXCEPT !.child = TRUE], "BACKEND_CHILD"), "main", "sleep")
    /\ UNCHANGED <<mainVars, probe>>

\* line 127: thread::sleep
L_Sleep ==
    /\ sync.at["main"] = "sleep"
    /\ sync' = Goto(sync, "main", "lock_check")
    /\ UNCHANGED <<mainVars, probe>>

\* line 130: BACKEND_CHILD.lock()
L_LockCheck ==
    /\ sync.at["main"] = "lock_check"
    /\ IsFree("BACKEND_CHILD")
    /\ sync' = Goto(Acquire(sync, "main", "BACKEND_CHILD"), "main", "try_wait")
    /\ UNCHANGED <<mainVars, probe>>

\* lines 131-158: try_wait under the guard; the guard is dropped on every way
\* out, with Ok to main's Ok arm and with Err to the host
L_TryWait ==
    /\ sync.at["main"] = "try_wait"
    /\ \/ sync' = Goto(Release(sync, "BACKEND_CHILD"), "main", "lock_info")
       \/ sync' = Goto(Release(sync, "BACKEND_CHILD"), "main", "run")
    /\ UNCHANGED <<mainVars, probe>>

\* line 185: BACKEND_INFO.lock()
L_LockInfo ==
    /\ sync.at["main"] = "lock_info"
    /\ IsFree("BACKEND_INFO")
    /\ sync' = Goto(Acquire(sync, "main", "BACKEND_INFO"), "main", "publish")
    /\ UNCHANGED <<mainVars, probe>>

\* lines 186-187: the info is stored and the guard dropped
L_Publish ==
    /\ sync.at["main"] = "publish"
    /\ sync' = Goto(Release(sync, "BACKEND_INFO"), "main", "run")
    /\ UNCHANGED <<mainVars, probe>>

\* lines 198-202: the host delivers a window event to on_window_event
L_Event(e) ==
    /\ sync.at["main"] = "run"
    /\ sync.events < MaxEvents
    /\ sync' = Goto([sync EXCEPT !.events = @ + 1], "main",
                    IF e = "CloseRequested" THEN "lock_cleanup"
                    ELSE IF e = "Destroyed" THEN "exited"
                    ELSE "run")
    /\ UNCHANGED <<mainVars, probe>>

\* line 163: BACKEND_CHILD.lock()
L_LockCleanup ==
    /\ sync.at["main"] = "lock_cleanup"
    /\ IsFree("BACKEND_CHILD")
    /\ sync' = Goto(Acquire(sync, "main", "BACKEND_CHILD"), "main", "take")
    /\ UNCHANGED <<mainVars, probe>>

\* cleanup_backend that also resets BACKEND_INFO, locking it inside the guard
L_Take_locks_info ==
    /\ sync.at["main"] = "take"
    /\ IsFree("BACKEND_INFO")
    /\ sync' = Goto(Acquire([sync EXCEPT !.child = FALSE], "main", "BACKEND_INFO"),
                    "main", "kill")
    /\ UNCHANGED <<mainVars, probe>>

\* line 164: child_guard.take(); without a child the guard is dropped at once
L_Take ==
    /\ sync.at["main"] = "take"
    /\ IF sync.child
       THEN sync' = Goto([sync EXCEPT !.child = FALSE], "main", "kill")
       ELSE sync' = Goto(Release(sync, "BACKEND_CHILD"), "main", "run")
    /\ UNCHANGED <<mainVars, probe>>

\* lines 165-170: child.kill() under the guard, then the guard is dropped
L_Kill ==
    /\ sync.at["main"] = "kill"
    /\ sync' = Goto([sync EXCEPT !.mutex = [m \in Mutexes |->
                                              IF @[m] = "main" THEN "free" ELSE @[m]]],
                    "main", "run")
    /\ UNCHANGED <<mainVars, probe>>

\* the host is running its event loop and commands
HostIsRunning == sync.at["main"] \in {"run", "lock_cleanup", "take", "kill"}

\* the UI invokes get_backend_port on a thread of the pool
L_UiCall(t) ==
    /\ HostIsRunning
    /\ sync.at[t] = "idle"
    /\ sync' = Goto(sync, t, "lock_info")
    /\ UNCHANGED <<mainVars, probe>>

\* line 32: BACKEND_INFO.lock()
L_UiLock(t) ==
    /\ sync.at[t] = "lock_info"
    /\ IsFree("BACKEND_INFO")
    /\ sync' = Goto(Acquire(sync, t, "BACKEND_INFO"), t, "read")
    /\ UNCHANGED <<mainVars, probe>>

\* lines 33-35: the port is read and the guard dropped
L_UiRead(t) ==
    /\ sync.at[t] = "read"
    /\ sync' = Goto(Release(sync, "BACKEND_INFO"), t, "idle")
    /\ UNCHANGED <<mainVars, probe>>

LockNext ==
    \/ L_Spawn
    \/ L_LockStore
    \/ L_Store
    \/ L_Sleep
    \/ L_LockCheck
    \/ L_TryWait
    \/ L_LockInfo
    \/ L_Publish
    \/ \E e \in WindowEvents : L_Event(e)
    \/ L_LockCleanup
    \/ L_Take
    \/ L_Kill
    \/ \E t \in UiThreads : L_UiCall(t)
    \/ \E t \in UiThreads : L_UiLock(t)
    \/ \E t \in UiThreads : L_UiRead(t)

\* the supervisor's data at rest: the lock protocol does not depend on it
DataAtRest ==
    /\ build = [debug |-> FALSE, manifest |-> TRUE]
    /\ exeEnv = <<"err">>
    /\ fs = {}
    /\ pc = "start"
    /\ port = None
    /\ possible_paths = <<>>
    /\ core_binary = None
    /\ child = None
    /\ pid = None
    /\ result = None
    /\ BACKEND_INFO = None
    /\ BACKEND_CHILD = None
    /\ proc = None
    /\ listener = None
    /\ stderr = <<>>
    /\ lastPort = None
    /\ hist = NoHist

LockInit ==
    /\ sync = NoSync
    /\ probe = NoProbe
    /\ DataAtRest

LockSpec == LockInit /\ [][LockNext]_vars

-----------------------------------------------------------------------------
(* The readiness probe waitForBackendReady: a request to the backend's root  *)
(* URL per polling interval, for a bounded number of attempts.               *)

\* the configured number of attempts
AttemptBudget == 30

\* what a request that is not answered with a success status ends with
RequestErrors == {"connection refused", "request timeout", "error status"}

\* the backend answers request number n with a success status
AnswersSuccess(n) == probe.readyAt # 0 /\ n >= probe.readyAt

\* the UI calls waitForBackendReady
P_Start ==
    /\ probe.at = "idle"
    /\ probe' = [probe EXCEPT !.at = "request"]
    /\ UNCHANGED <<mainVars, sync>>

\* a probe that gives up on the first connection error
P_Request_error_is_fatal ==
    /\ probe.at = "request"
    /\ LET n == probe.requests + 1
           sent == [probe EXCEPT !.attempts = @ + 1, !.requests = n]
       IN IF AnswersSuccess(n)
          THEN probe' = [sent EXCEPT !.at = "done", !.outcome = Some("ready")]
          ELSE \E e \in RequestErrors :
                  IF sent.attempts = AttemptBudget \/ e = "connection refused"
                  THEN probe' = [sent EXCEPT !.at = "done",
                                             !.outcome = Some("BackendTimeoutError")]
                  ELSE probe' = [sent EXCEPT !.at = "interval"]
    /\ UNCHANGED <<mainVars, sync>>

\* a probe that takes any response, whatever its status, for readiness
P_Request_any_response ==
    /\ probe.at = "request"
    /\ LET n == probe.requests + 1
           sent == [probe EXCEPT !.attempts = @ + 1, !.requests = n]
       IN \/ /\ AnswersSuccess(n)
             /\ probe' = [sent EXCEPT !.at = "done", !.outcome = Some("ready")]
          \/ /\ ~AnswersSuccess(n)
             /\ \E e \in RequestErrors :
                  IF e = "error status"
                  THEN probe' = [sent EXCEPT !.at = "done", !.outcome = Some("ready")]
                  ELSE IF sent.attempts = AttemptBudget
                  THEN probe' = [sent EXCEPT !.at = "done",
                                             !.outcome = Some("BackendTimeoutError")]
                  ELSE probe' = [sent EXCEPT !.at = "interval"]
    /\ UNCHANGED <<mainVars, sync>>

\* one attempt: a short-timeout request; a success status ends the probe with
\* success, anything else counts as not ready yet, and the last attempt of the
\* budget ends the probe with BackendTimeoutError
P_Request ==
    /\ probe.at = "request"
    /\ LET n == probe.requests + 1
           sent == [probe EXCEPT !.attempts = @ + 1, !.requests = n]
       IN IF AnswersSuccess(n)
          THEN probe' = [sent EXCEPT !.at = "done", !.outcome = Some("ready")]
          ELSE \E e \in RequestErrors :
                  IF sent.attempts = AttemptBudget
                  THEN probe' = [sent EXCEPT !.at = "done", !.lastError = Some(e),
                                             !.outcome = Some("BackendTimeoutError")]
                  ELSE probe' = [sent EXCEPT !.at = "interval", !.lastError = Some(e)]
    /\ UNCHANGED <<mainVars, sync>>

\* the polling interval between two attempts
P_Interval ==
    /\ probe.at = "interval"
    /\ probe' = [probe EXCEPT !.at = "request"]
    /\ UNCHANGED <<mainVars, sync>>

ProbeNext ==
    \/ P_Start
    \/ P_Request
    \/ P_Interval

\* the backend first answers with success on request readyAt, or never (0)
ProbeInit ==
    /\ sync = NoSync
    /\ \E n \in 0..(AttemptBudget + 1) : probe = [NoProbe EXCEPT !.readyAt = n]
    /\ DataAtRest

\* a started probe keeps making its attempts
ProbeSpec ==
    ProbeInit /\ [][ProbeNext]_vars /\ WF_vars(P_Request) /\ WF_vars(P_Interval)

-----------------------------------------------------------------------------
(* Properties *)

\* the positions of main inside start_backend
LaunchPcs == {"start", "locate", "spawn", "store", "sleep", "check"}

LaunchReturned == IsSome(result)
LaunchSucceeded == IsSome(result) /\ Unwrap(result).ok
LaunchFailed == IsSome(result) /\ ~Unwrap(result).ok
ChildStarted == IsSome(proc)
\* cleanup_backend has taken a child out of BACKEND_CHILD
StopTookChild == hist.killCalls >= 1

\* C1: when the application has exited and a child had been started, a kill of
\* that child was attempted before: no run ends with a started child that was
\* never sent a kill signal.
C1_KillBeforeExit ==
    (pc = "exited" /\ ChildStarted) => hist.killCalls >= 1

\* C2: a stop that found a child has sent the signal, then waited for the child
\* to be reaped, then cleared the handle; afterwards the handle is None and the
\* child has been reaped.
C2_StopKillsWaitsClears ==
    (IsSome(hist.stopSteps) /\ Unwrap(hist.stopSteps) # <<>>) =>
        /\ Unwrap(hist.stopSteps) = <<"kill", "wait", "take">>
        /\ BACKEND_CHILD = None
        /\ Unwrap(proc).state = "reaped"

\* C3: stop is idempotent: at most one kill is ever attempted, every stop after
\* the first finds no child, and a stop that finds no child changes nothing and
\* writes no error.
C3_StopIdempotent ==
    /\ [](hist.killCalls <= 1)
    /\ [][ (hist'.stopCalls = hist.stopCalls + 1 /\ hist.stopCalls >= 1)
             => BACKEND_CHILD = None ]_vars
    /\ [][ (hist'.stopCalls = hist.stopCalls + 1 /\ BACKEND_CHILD = None)
             => /\ UNCHANGED <<BACKEND_CHILD, BACKEND_INFO, proc, stderr>>
                /\ hist'.killCalls = hist.killCalls ]_vars

\* C3 witness: a second stop has run after the one that killed the child
C3_Witness == hist.stopCalls >= 2 /\ hist.killCalls = 1 /\ BACKEND_CHILD = None

\* C4: get_backend_port returns None in every state before the launch has
\* succeeded and in every state after stop has terminated the child.
C4_PortNoneUnlessLive ==
    /\ ~LaunchSucceeded => get_backend_port = None
    /\ StopTookChild => get_backend_port = None

\* C5: outside the launch sequence, BACKEND_CHILD is Some exactly when a spawn
\* succeeded and no termination of the child has been observed, by stop or by
\* the immediate-exit check.
C5_HandleIffLive ==
    pc \notin LaunchPcs =>
        (IsSome(BACKEND_CHILD) <=> (ChildStarted /\ ~hist.observed))

\* C6: when the spawn succeeded, start_backend returns the immediate-exit error
\* with the child's exit status if try_wait found the child exited, and the
\* backend info with the allocated port and the child's pid if it found the
\* child running.
C6_ImmediateExitCheck ==
    (LaunchReturned /\ IsSome(hist.try_wait)) =>
        LET r == Unwrap(result)
            q == Unwrap(hist.try_wait)
            pr == Unwrap(proc)
        IN /\ q[1] = "exited" =>
                /\ ~r.ok
                /\ Unwrap(r.err).msg = "Backend process exited immediately with status: "
                /\ Unwrap(r.err).detail = pr.status
                /\ pr.status # None
           /\ q[1] = "running" =>
                /\ r.ok
                /\ Unwrap(r.val).port = Unwrap(port)
                /\ to_string(Unwrap(r.val).port) = pr.env.PORT
                /\ Unwrap(r.val).pid = Some(pr.pid)

\* C6 witness: the spawn succeeded, the child was found exited and the launch
\* returned an error
C6_Witness ==
    /\ LaunchFailed
    /\ hist.spawnCount = 1
    /\ IsSome(hist.try_wait)
    /\ Unwrap(hist.try_wait)[1] = "exited"

\* C7: a launch failure of any kind is not fatal: BACKEND_INFO stays None, the
\* next step of main logs the failure and goes on to the window host, the step
\* after it runs the host, and the application then ends only through a window
\* event.
C7_FailureNotFatal ==
    /\ [](LaunchFailed => BACKEND_INFO = None)
    /\ [][ (LaunchFailed /\ pc = "match" /\ pc' # pc)
             => /\ pc' = "host"
                /\ Len(stderr') = Len(stderr) + 1
                /\ stderr'[Len(stderr')] = <<"Failed to start backend: ",
                                             Unwrap(Unwrap(result).err)>> ]_vars
    /\ [][ (LaunchFailed /\ pc = "host" /\ pc' # pc) => pc' = "running" ]_vars
    /\ [][ (LaunchFailed /\ pc = "running" /\ pc' # "running")
             => hist'.events = hist.events + 1 ]_vars

\* C7 witness: the child exited at once, and the window host runs and answers
\* get_backend_port with None
C7_Witness ==
    /\ LaunchFailed
    /\ Unwrap(Unwrap(result).err).msg = "Backend process exited immediately with status: "
    /\ pc = "running"
    /\ lastPort = Some(None)

\* C8: one launch attempt per run: port allocation, binary location and spawn
\* each happen at most once, and once stop has cleared the handle it stays None.
C8_SingleAttempt ==
    /\ [](/\ hist.allocCount <= 1
          /\ hist.locateCount <= 1
          /\ hist.spawnCount <= 1)
    /\ [][ (pc \notin LaunchPcs /\ BACKEND_CHILD = None) => BACKEND_CHILD' = None ]_vars

\* C8 witness: a launch failed after its spawn, the host runs and stop has
\* cleared the handle
C8_Witness ==
    /\ LaunchFailed
    /\ hist.spawnCount = 1
    /\ StopTookChild
    /\ BACKEND_CHILD = None
    /\ pc = "running"

\* the search of start_backend has run on a candidate list
Located == hist.locateCount >= 1 /\ exeEnv[1] = "ok"

CandidateExists(j) == exists(fs, possible_paths[j])

\* the kind of place a path is, by its shape: 1 a development-build location,
\* 2 next to the running executable, 3 in a resources directory
LocationRank(path) ==
    LET exe_dir == exeEnv[2]
        names == { exe_candidates[i] : i \in 1..Len(exe_candidates) }
    IN IF /\ build.debug
          /\ build.manifest
          /\ \E n \in {<<"whodb-core.exe">>, <<"whodb-core">>} :
                path = ManifestDir \o <<"bin">> \o n
       THEN 1
       ELSE IF \E n \in names : path = exe_dir \o n
       THEN 2
       ELSE 3

\* the path chosen is the lowest-index candidate that exists, and one is chosen
\* whenever a candidate exists
LowestIndexChosen ==
    /\ IsSome(core_binary) <=> (\E j \in 1..Len(possible_paths) : CandidateExists(j))
    /\ IsSome(core_binary) =>
          \E k \in 1..Len(possible_paths) :
              /\ possible_paths[k] = Unwrap(core_binary)
              /\ CandidateExists(k)
              /\ \A j \in 1..(k - 1) : ~CandidateExists(j)

\* the candidate list: the development-build locations, then for each name in
\* turn the executable's directory, its resources and the parent's resources
NameMajorOrder ==
    LET exe_dir == exeEnv[2]
        nd == IF build.debug /\ build.manifest THEN 2 ELSE 0
    IN /\ Len(possible_paths) = nd + 3 * Len(exe_candidates)
       /\ \A i \in 1..nd : SubSeq(possible_paths[i], 1, 2) = ManifestDir \o <<"bin">>
       /\ \A n \in 1..Len(exe_candidates) :
            LET at == nd + 3 * (n - 1)
            IN /\ possible_paths[at + 1] = exe_dir \o exe_candidates[n]
               /\ possible_paths[at + 2] = exe_dir \o <<"resources">> \o exe_candidates[n]
               /\ possible_paths[at + 3] =
                      exe_dir \o <<"..", "resources">> \o exe_candidates[n]

\* C9 as stated: the path chosen is the lowest-index candidate that exists, in
\* the order development-build locations, then locations next to the
\* executable, then the resources directories: no candidate of a later kind is
\* chosen while one of an earlier kind exists.
C9_KindPriority ==
    Located =>
        /\ LowestIndexChosen
        /\ IsSome(core_binary) =>
              \A j \in 1..Len(possible_paths) :
                  CandidateExists(j) =>
                      LocationRank(Unwrap(core_binary)) <= LocationRank(possible_paths[j])

\* C9 amended: the path chosen is the lowest-index candidate that exists, in
\* the order of the list: development-build locations first, then name by name
\* the executable's directory, its resources and the parent's resources.
C9_FirstInListOrder ==
    Located => (LowestIndexChosen /\ NameMajorOrder)

\* C9 witness: a resources candidate was chosen and spawned while a later
\* candidate next to the executable exists
C9_Witness ==
    /\ Located
    /\ IsSome(core_binary)
    /\ ChildStarted
    /\ LocationRank(Unwrap(core_binary)) = 3
    /\ \E j \in 1..Len(possible_paths) :
          CandidateExists(j) /\ LocationRank(possible_paths[j]) = 2

NoCandidateExists ==
    Located /\ \A j \in 1..Len(possible_paths) : ~CandidateExists(j)

NothingSpawned ==
    /\ proc = None
    /\ hist.spawnCount = 0
    /\ BACKEND_CHILD = None
    /\ BACKEND_INFO = None

\* C10 as stated: when no candidate exists the launch fails with the not-found
\* error, whose payload is the candidate list, element for element; nothing is
\* spawned and the supervisor state is unchanged.
C10_SearchedPayload ==
    NoCandidateExists =>
        /\ LaunchFailed
        /\ Unwrap(Unwrap(result).err).msg = "Core binary not found in any expected location"
        /\ Unwrap(Unwrap(result).err).detail = possible_paths
        /\ NothingSpawned

\* C10 amended: when no candidate exists the launch fails with the not-found
\* error, a fixed message without payload; the candidates are written to the
\* error output, one line each, in list order; nothing is spawned and the
\* supervisor state is unchanged.
C10_SearchedLogged ==
    NoCandidateExists =>
        /\ LaunchFailed
        /\ Unwrap(Unwrap(result).err).msg = "Core binary not found in any expected location"
        /\ Unwrap(Unwrap(result).err).detail = <<>>
        /\ Len(possible_paths) > 0
        /\ Len(stderr) \in { Len(possible_paths) + 1, Len(possible_paths) + 2 }
        /\ \A i \in 1..Len(possible_paths) : stderr[i + 1] = <<"  - ", possible_paths[i]>>
        /\ NothingSpawned

\* C10 witness: no candidate exists, the launch has failed and the host runs
C10_Witness == NoCandidateExists /\ LaunchFailed /\ pc = "running"

\* cleanup_backend has logged a kill that the operating system rejected
KillRejected ==
    \E i \in 1..Len(stderr) : stderr[i][1] = "Failed to terminate backend process: "

\* C11: a rejected kill is logged only: the stop that met it returns within its
\* event, leaving the application running and the handle cleared; it is the one
\* kill ever attempted, no signal is sent afterwards, and the application ends
\* only through a later window event.
C11_KillFailureLoggedOnly ==
    /\ [](KillRejected =>
            /\ BACKEND_CHILD = None
            /\ hist.killCalls = 1
            /\ Unwrap(proc).signals = 0)
    /\ [][ (~KillRejected /\ KillRejected') =>
              /\ pc = "running" /\ pc' = "running"
              /\ hist'.stopCalls = hist.stopCalls + 1
              /\ Len(stderr') = Len(stderr) + 1
              /\ proc' = proc
              /\ BACKEND_INFO' = BACKEND_INFO ]_vars
    /\ [][ (KillRejected /\ pc' # pc) =>
              (pc' = "exited" /\ hist'.events = hist.events + 1) ]_vars

\* C11 witness: the kill was rejected and the application has exited all the same
C11_Witness == KillRejected /\ pc = "exited" /\ hist.stopCalls >= 1

\* what a thread is waiting for at a lock() call
Wanted(t) ==
    IF sync.at[t] \in {"lock_store", "lock_check", "lock_cleanup"} THEN Some("BACKEND_CHILD")
    ELSE IF sync.at[t] = "lock_info" THEN Some("BACKEND_INFO")
    ELSE None

Blocked(t) == IsSome(Wanted(t)) /\ ~IsFree(Unwrap(Wanted(t)))

\* no thread holds a lock at a lock() call, nor two locks anywhere
NoNestedLocking ==
    \A t \in Threads :
        /\ IsSome(Wanted(t)) => Held(t) = {}
        /\ Cardinality(Held(t)) <= 1

\* a thread that waits for a mutex waits for a thread that is not waiting itself
NoDeadlock ==
    \A t \in Threads :
        Blocked(t) => ~Blocked(sync.mutex[Unwrap(Wanted(t))])

\* the code each position runs under the guard of the mutex it needs
GuardedAccess ==
    \A t \in Threads :
        /\ sync.at[t] \in {"store", "try_wait", "take", "kill"}
              => "BACKEND_CHILD" \in Held(t)
        /\ sync.at[t] \in {"publish", "read"} => "BACKEND_INFO" \in Held(t)

\* C12 as stated: a lock is held only to read or replace the handle: it is not
\* held during the spawn, during the sleep, or while the kill signal is sent.
C12_NoLockAcrossCalls ==
    \A t \in Threads :
        sync.at[t] \in {"spawn", "sleep", "kill"} => Held(t) = {}

\* C12 amended: no lock is held during the spawn or the sleep; BACKEND_CHILD is
\* held while the kill signal is sent and during try_wait, and nothing else is
\* held there.
C12_LockOnlyAroundHandle ==
    \A t \in Threads :
        /\ sync.at[t] \in {"spawn", "sleep"} => Held(t) = {}
        /\ sync.at[t] \in {"kill", "try_wait"} => Held(t) = {"BACKEND_CHILD"}
        /\ Held(t) # {} =>
              sync.at[t] \in {"store", "try_wait", "publish", "take", "kill", "read"}

\* C12 witness: the kill signal is about to be sent under the guard while a
\* command waits at the other mutex's holder
C12_Witness ==
    /\ sync.at["main"] = "kill"
    /\ Held("main") = {"BACKEND_CHILD"}
    /\ \E t \in UiThreads : sync.at[t] = "read"

\* C13 as stated: every access goes through one lock, no lock is taken while
\* one is held, and no thread waits for a waiting thread.
C13_SingleLock ==
    /\ Cardinality(sync.used) <= 1
    /\ GuardedAccess
    /\ NoNestedLocking
    /\ NoDeadlock

\* C13 amended: every access goes through the mutex of the static it touches,
\* of which there are two; no lock is taken while one is held, and no thread
\* waits for a waiting thread.
C13_TwoLocksNeverNested ==
    /\ sync.used \subseteq Mutexes
    /\ GuardedAccess
    /\ NoNestedLocking
    /\ NoDeadlock

\* C13 witness: both mutexes are held at once, by different threads, while a
\* third thread waits
C13_Witness ==
    /\ sync.used = Mutexes
    /\ \A m \in Mutexes : ~IsFree(m)
    /\ \E t \in Threads : Blocked(t)

\* the largest u16
MaxPort == 65535

\* C14: a successful allocation returns a port in 1..65535, the one the OS
\* bound, which no other loopback listener held at the return; the allocator's
\* listener is released from then on, so the supervisor never holds the port
\* the child is told to bind.
C14_PortFreeAndReleased ==
    /\ IsSome(port) =>
          /\ Unwrap(port) \in 1..MaxPort
          /\ hist.bound = port
          /\ Unwrap(port) \notin hist.others
    /\ pc # "start" => listener = None
    /\ ChildStarted => listener # Some(Unwrap(port))

\* C14 witness: another process listened on a port at the allocation, and the
\* child has been spawned
C14_Witness ==
    /\ ChildStarted
    /\ hist.others # {}
    /\ listener = None

\* the backend never answers with a success status within the budget
NeverReady == probe.readyAt = 0 \/ probe.readyAt > AttemptBudget

ProbeTimedOut == probe.outcome = Some("BackendTimeoutError")
ProbeReady == probe.outcome = Some("ready")

\* C15: against a backend that never answers with success the probe ends, with
\* BackendTimeoutError, after exactly the budget of requests: no request error
\* ends it earlier, it never issues more requests than the budget, and once
\* started it terminates.
C15_TimeoutAfterBudget ==
    /\ [](probe.requests <= AttemptBudget)
    /\ [](ProbeTimedOut => probe.requests = AttemptBudget)
    /\ []((NeverReady /\ probe.at = "done") => ProbeTimedOut)
    /\ [](NeverReady => ~ProbeReady)
    /\ [][ (NeverReady /\ probe'.requests > probe.requests
              /\ probe'.requests < AttemptBudget)
             => (probe'.at = "interval" /\ probe'.outcome = None) ]_vars
    /\ (probe.at = "request") ~> (probe.at = "done")

\* C15 witness: the backend never answered and the probe timed out after a
\* request that timed out
C15_Witness ==
    /\ NeverReady
    /\ ProbeTimedOut
    /\ probe.lastError = Some("request timeout")

\* C16: against a backend whose first success is to request N, within the
\* budget, the probe returns success at attempt N: not before that response,
\* and no request is issued once the probe has ended.
C16_ReadyAtNth ==
    /\ [](ProbeReady =>
            /\ probe.readyAt \in 1..AttemptBudget
            /\ probe.requests = probe.readyAt
            /\ probe.attempts = probe.readyAt)
    /\ []((~NeverReady /\ probe.at = "done") => ProbeReady)
    /\ []((~NeverReady /\ probe.requests < probe.readyAt) => probe.outcome = None)
    /\ [][ probe.at = "done" => probe' = probe ]_vars

\* C16 witness: the backend became ready on a request after the first and
\* below the budget, and the probe returned success
C16_Witness ==
    /\ ProbeReady
    /\ probe.readyAt > 1
    /\ probe.readyAt < AttemptBudget
    /\ IsSome(probe.lastError)

\* get_backend_port has been called and returned Some(p)
AccessorGotPort == IsSome(lastPort) /\ IsSome(Unwrap(lastPort))

\* C17: the backend info is published only after start_backend returned Ok:
\* whenever get_backend_port returns (or has returned) Some(p), a child was
\* spawned and try_wait after the grace period found it running; after a launch
\* error BACKEND_INFO is None, and the accessor returns None, from then on.
C17_PublishedOnlyAfterOk ==
    /\ (IsSome(get_backend_port) \/ AccessorGotPort) =>
          /\ LaunchSucceeded
          /\ ChildStarted
          /\ hist.spawnCount = 1
          /\ hist.try_wait = Some(<<"running">>)
    /\ LaunchFailed =>
          /\ BACKEND_INFO = None
          /\ IsSome(lastPort) => Unwrap(lastPort) = None

\* C17 witness: the accessor returned a port after the child had been found running
C17_Witness ==
    /\ AccessorGotPort
    /\ hist.try_wait = Some(<<"running">>)

\* the number a decimal digit string stands for (str::parse)
RECURSIVE parse(_)
parse(ds) ==
    IF ds = <<>> THEN 0 ELSE parse(SubSeq(ds, 1, Len(ds) - 1)) * 10 + ds[Len(ds)]

\* the stored info names the allocated port, the child's PORT and the child's pid
InfoMatchesChild(info) ==
    /\ Some(info.port) = hist.bound
    /\ Some(info.port) = port
    /\ ChildStarted
    /\ parse(Unwrap(proc).env.PORT) = info.port
    /\ info.pid = Some(Unwrap(proc).pid)

\* C18: the port is chosen once and never changes: the published port is the
\* one the allocator returned and the one in the child's PORT variable, the
\* published pid is that child's pid, every accessor result is that port, and
\* once published the info is altered by no later step (accessor call or stop).
C18_PortAndPidFixed ==
    /\ [](hist.allocCount <= 1)
    /\ [](IsSome(BACKEND_INFO) => InfoMatchesChild(Unwrap(BACKEND_INFO)))
    /\ [](AccessorGotPort => Unwrap(lastPort) = hist.bound)
    /\ [][ IsSome(BACKEND_INFO) => BACKEND_INFO' = BACKEND_INFO ]_vars
    /\ [][ IsSome(port) => port' = port ]_vars
    /\ [][ IsSome(proc) => /\ IsSome(proc')
                           /\ Unwrap(proc').env = Unwrap(proc).env
                           /\ Unwrap(proc').pid = Unwrap(proc).pid ]_vars

\* C18 witness: after a stop, the accessor still returned the allocated port,
\* which is not the lowest one and was not the only one free
C18_Witness ==
    /\ AccessorGotPort
    /\ StopTookChild
    /\ BACKEND_CHILD = None
    /\ Unwrap(BACKEND_INFO).port = 49152
    /\ get_backend_port = hist.bound

\* the steps that only happen under the running window host
HostPcs == {"running", "exited"}

\* C19: the launch sequence has run to completion before the window host
\* starts: cleanup_backend and get_backend_port run only under the host, after
\* start_backend returned and main published its result; no stop runs between
\* the child being stored and the exit-status query, and the accessor never
\* sees a launch whose info is still to be published.
C19_LaunchBeforeHost ==
    /\ [](pc \in HostPcs => LaunchReturned)
    /\ [](pc \in HostPcs /\ LaunchSucceeded => BACKEND_INFO = Unwrap(result).val)
    /\ []((hist.stopCalls >= 1 \/ hist.events >= 1 \/ IsSome(lastPort)) => pc \in HostPcs)
    /\ [](pc \in {"sleep", "check"} => /\ IsSome(BACKEND_CHILD)
                                        /\ hist.stopCalls = 0)
    /\ []((IsSome(lastPort) /\ LaunchSucceeded) => lastPort = Some(port))
    /\ [][ (hist'.stopCalls # hist.stopCalls \/ lastPort' # lastPort)
             => pc = "running" ]_vars

\* C19 witness: under the host, after a successful launch, a stop has run and
\* the accessor has returned the published port
C19_Witness ==
    /\ pc = "running"
    /\ LaunchSucceeded
    /\ hist.stopCalls >= 1
    /\ lastPort = Some(port)

====
